---- MODULE Spec2Model ----
(***************************************************************************)
(* State-machine model of src/date_helper.py: BinanceKlinesFetcher         *)
(* (test_connection, get_klines, fetch_all_klines, klines_to_dataframe,    *)
(* save_to_csv) and the __main__ entry point that drives them.             *)
(*                                                                         *)
(* The exchange endpoint is the environment: every HTTP request gets one   *)
(* of the outcomes the code distinguishes, chosen nondeterministically.    *)
(* A page it answers holds only rows whose open time is at or after the    *)
(* requested startTime; its rows are in ascending order of open time,      *)
(* except that one page of a run may come in any order, repeats included.  *)
(* Timestamps are milliseconds, drawn from 0..MaxTs.  The page limit 1000  *)
(* of lines 111 and 133 is scaled down to PageLimit rows.  request_count    *)
(* (lines 106, 110) is read by the progress messages of lines 118 and 130  *)
(* only; like the messages, it is left out.                                *)
(***************************************************************************)
EXTENDS Integers, Sequences, FiniteSets, TLC

\* ---------------------------------------------------------------- bounds
MaxTs == 3             \* timestamps range over 0..MaxTs
PageLimit == 2         \* stands for the limit 1000 passed at line 111
MaxRetriesBound == 2   \* max_retries ranges over 0..MaxRetriesBound
MaxLen == 3            \* longest series handed to klines_to_dataframe alone
MaxCallRetries == 3    \* max_retries of a get_klines call looked at alone ranges over 0..MaxCallRetries

\* ------------------------------------------------------ program constants
FailureLimit == 5       \* line 115: failed_count >= 5
DefaultRetryAfter == 60 \* line 56: headers.get('Retry-After', 60)
DefaultMaxRetries == 3  \* line 8: max_retries=3

VARIABLES
    pc,             \* position of the run
    max_retries,    \* self.max_retries
    connected,      \* what test_connection returned (FALSE before it ran)
    start_ts,       \* fetch_all_klines: start_ts
    end_ts,         \* fetch_all_klines: end_ts
    current_ts,     \* fetch_all_klines: current_ts, the cursor
    all_klines,     \* fetch_all_klines: all_klines
    failed_count,   \* fetch_all_klines: failed_count
    klines,         \* fetch_all_klines: klines, the value get_klines returned
    attempt,        \* get_klines: the for-loop index
    df,             \* __main__: df
    csv,            \* the file save_to_csv writes
    \* ---- observations of the run (no code reads them)
    pings,          \* ping requests issued
    pingOutcome,    \* how the ping request ended
    klinesRequested,\* a klines HTTP request has been issued in the run
    callRequests,   \* klines HTTP requests issued by the current get_klines call
    callSaw,        \* classes of outcome the current get_klines call has seen
    lastEvent,      \* last thing the current get_klines call did
    lastSleep,      \* seconds of the last sleep inside the current get_klines call
    reqStart,       \* startTime of the last page request
    reqEnd,         \* endTime of the last page request
    reqLimit,       \* limit of the last page request
    received,       \* the non-empty pages get_klines returned so far, end to end
    pace,           \* pacing sleep of fetch_all_klines since the last get_klines call returned, in units of delay
    exitReason,     \* why the loop of fetch_all_klines was left
    sortedPages     \* every page received so far was strictly ascending by open time

vars == <<pc, max_retries, connected, start_ts, end_ts, current_ts, all_klines,
          failed_count, klines, attempt, df, csv, pings, pingOutcome, klinesRequested,
          callRequests, callSaw, lastEvent, lastSleep, reqStart, reqEnd, reqLimit,
          received, pace,
          exitReason, sortedPages>>

mainVars == <<connected, df, csv, pings, pingOutcome>>
fetchVars == <<start_ts, end_ts, current_ts, all_klines, failed_count>>
callObs == <<callRequests, callSaw, lastEvent, lastSleep>>
pageObs == <<reqStart, reqEnd, reqLimit, received, sortedPages>>

\* ------------------------------------------------------------ data values
Timestamps == 0..MaxTs

\* One raw 12-field row of the klines endpoint (spec section 6), open time t.
RawRow(t) == <<t, "1.5", "2", "1.50", "2", "10.5", t, "15.75", 7, "2", "1.5", "0">>

\* Raw rows with other field values, for the conversion on its own.
RawRows ==
    { <<t, p, "2", "1.50", p, "10.5", t + 1, "15.75", n, "2", "1.5", "0">> :
        t \in 0..1, p \in {"1.5", "2"}, n \in {0, 7} }

\* Python's None as get_klines returns it, and a returned JSON array.
None == [none |-> TRUE, rows |-> <<>>]
\* Mutant of Rows: the parsed body is not handed back.
RowsLost(page) == None
\* line 62: return response.json()
Rows(page) == [none |-> FALSE, rows |-> page]

SeqsUpTo(S, n) == UNION { [1..k -> S] : k \in 0..n }

\* get_klines, line 42: min(limit, 1000)
RequestLimit(limit) == IF limit < PageLimit THEN limit ELSE PageLimit

\* What the endpoint may answer to a page request: up to the requested limit
\* of rows.
Pages == SeqsUpTo({ RawRow(t) : t \in Timestamps }, RequestLimit(PageLimit))

OpenTime(row) == row[1]

StrictlyIncreasing(rows) ==
    \A i \in 1..(Len(rows) - 1) : OpenTime(rows[i]) < OpenTime(rows[i + 1])

FromStart(page, start) == \A i \in 1..Len(page) : OpenTime(page[i]) >= start


\* ------------------------------------------------- decisions of the code
\* Mutant of PingResult: any response counts as a success.
PingResultAnyResponse(o) == o.kind = "response"

\* test_connection, line 24 and lines 25-26: an outcome is a response with a
\* status, or a timeout or other exception raised by requests.get.
PingResult(o) == o.kind = "response" /\ o.status = 200

\* No ping request has been made yet.
NoOutcome == [kind |-> "none", status |-> 0]

PingOutcomes ==
    { [kind |-> "response", status |-> st] : st \in {200, 500} }
        \cup { [kind |-> k, status |-> 0] : k \in {"timeout", "exception"} }

\* Mutant of AbortRun: the run goes on whatever test_connection returned.
AbortRunNever(conn) == FALSE

\* __main__, line 181: if not fetcher.test_connection(): exit(1)
AbortRun(conn) == ~conn

\* get_klines, line 50: for attempt in range(self.max_retries)
ForLoopRuns(a, mr) == a < mr

\* get_klines, line 55
IsRateLimit(status) == status \in {429, 418}

\* get_klines, line 56: int(response.headers.get('Retry-After', 60)); the
\* header is absent or holds an integer ("bad" headers raise, see
\* HttpRateLimitedBadHeader).
RetryAfter(header) == IF header = "absent" THEN DefaultRetryAfter ELSE 5

RetryAfterHeaders == {"absent", "5"}

\* Mutant of AfterRateLimit: a rate-limited attempt is not counted.
AfterRateLimitSame(a) == a

\* get_klines, lines 58-59: sleep, then continue with the next index of the
\* for loop.
AfterRateLimit(a) == a + 1

\* get_klines, lines 65, 74, 80: attempt < self.max_retries - 1
RetryAllowed(a, mr) == a < mr - 1

\* Mutant of WaitTime: the same wait after every attempt.
WaitTimeFlat(a) == 2

\* get_klines, lines 66, 76, 82: (attempt + 1) * 2
WaitTime(a) == (a + 1) * 2

\* fetch_all_klines, line 113: not klines (None and the empty list are falsy)
Falsy(k) == k.none \/ Len(k.rows) = 0

\* Mutant of CountFailure: the failure is not counted.
CountFailureLost(fc) == fc

\* Mutant of CountFailure: the failure is counted twice.
CountFailureTwice(fc) == fc + 2

\* fetch_all_klines, line 114: failed_count += 1
CountFailure(fc) == fc + 1

\* Mutant of GiveUp: one failure too late.
GiveUpLate(fc) == fc > FailureLimit

\* fetch_all_klines, line 115
GiveUp(fc) == fc >= FailureLimit

\* Mutants of NextCursor: the last open time itself; the first row's open time.
NextCursorSame(page) == page[Len(page)][1]
NextCursorFirst(page) == page[1][1] + 1

\* fetch_all_klines, line 128: klines[-1][0] + 1
NextCursor(page) == page[Len(page)][1] + 1

\* Mutant of FailureDelay: the pause after a failure is the plain delay.
FailureDelaySingle(delay) == delay

\* fetch_all_klines, line 119: time.sleep(delay * 2)
FailureDelay(delay) == delay * 2

\* fetch_all_klines, line 136: time.sleep(delay)
PageDelay(delay) == delay

\* Mutant of Extend: the page takes the place of the series.
ExtendReplacing(series, page) == page

\* fetch_all_klines, line 127: all_klines.extend(klines)
Extend(series, page) == series \o page

\* Mutant of LoopRuns: the loop also runs with the cursor at the end timestamp.
LoopRunsInclusive(cur, end) == cur <= end

\* fetch_all_klines, line 109
LoopRuns(cur, end) == cur < end

\* Mutant of ShortPage: a short page does not end the loop.
ShortPageNever(page) == FALSE

\* fetch_all_klines, line 133: len(klines) < 1000
ShortPage(page) == Len(page) < PageLimit

\* ------------------------------------------------- klines_to_dataframe
Columns12 == <<"open_time", "open", "high", "low", "close", "volume",
               "close_time", "quote_volume", "trades", "taker_buy_base",
               "taker_buy_quote", "ignore">>

NumericColumns == {"open", "high", "low", "close", "volume",
                   "quote_volume", "taker_buy_base", "taker_buy_quote"}

EmptyFrame == [columns |-> <<>>, rows |-> <<>>]

\* df.empty
FrameEmpty(f) == Len(f.rows) = 0 \/ Len(f.columns) = 0

\* pd.to_datetime(x, unit='ms'): a date-time value, held as its epoch ms
ToDatetime(ms) == [datetime_ms |-> ms]

\* astype(float) on the decimal strings of the wire format: the float, held
\* in hundredths
ToFloat(s) ==
    CASE s = "1.5" -> [float_e2 |-> 150]
      [] s = "1.50" -> [float_e2 |-> 150]
      [] s = "2" -> [float_e2 |-> 200]
      [] s = "10.5" -> [float_e2 |-> 1050]
      [] s = "15.75" -> [float_e2 |-> 1575]
      [] s = "0" -> [float_e2 |-> 0]

\* astype(int) on the trade count, an integer of the wire format
ToInt(n) == n

\* lines 152-158: the coercion of one cell by the name of its column
Coerce(col, v) ==
    IF col \in {"open_time", "close_time"} THEN ToDatetime(v)
    ELSE IF col \in NumericColumns THEN ToFloat(v)
    ELSE IF col = "trades" THEN ToInt(v)
    ELSE v

\* df.drop(name, axis=1)
KeptIndexes(cols, name) == { i \in 1..Len(cols) : cols[i] # name }

RECURSIVE SetToSortedSeq(_)
SetToSortedSeq(S) ==
    IF S = {} THEN <<>>
    ELSE LET m == CHOOSE x \in S : \A y \in S : x <= y
         IN <<m>> \o SetToSortedSeq(S \ {m})

Pick(seq, idx) == [j \in 1..Len(idx) |-> seq[idx[j]]]

\* Mutant of DropColumn: nothing is dropped.
DropNothing(f, name) == f

DropColumn(f, name) ==
    LET idx == SetToSortedSeq(KeptIndexes(f.columns, name))
    IN [columns |-> Pick(f.columns, idx),
        rows |-> [r \in 1..Len(f.rows) |-> Pick(f.rows[r], idx)]]

\* lines 141-160
klines_to_dataframe(k) ==
    IF Len(k) = 0 THEN EmptyFrame
    ELSE LET typed == [columns |-> Columns12,
                       rows |-> [r \in 1..Len(k) |->
                                   [c \in 1..Len(Columns12) |-> Coerce(Columns12[c], k[r][c])]]]
         IN DropColumn(typed, "ignore")

NoFile == [written |-> FALSE, header |-> <<>>, nrows |-> 0]

\* Mutant of save_to_csv: the table is written whatever it holds.
SaveAlways(f, file) == [written |-> TRUE, header |-> f.columns, nrows |-> Len(f.rows)]

\* lines 162-166: to_csv(filename, index=False) writes a header row and one
\* line per row of the table
save_to_csv(f, file) ==
    IF ~FrameEmpty(f) THEN [written |-> TRUE, header |-> f.columns, nrows |-> Len(f.rows)]
    ELSE file

\* ------------------------------------------------------------ the run
Init ==
    /\ pc = "main"
    /\ max_retries \in 0..MaxRetriesBound
    /\ connected = FALSE
    /\ start_ts = 0 /\ end_ts = 0 /\ current_ts = 0
    /\ all_klines = <<>>
    /\ failed_count = 0
    /\ klines = None
    /\ attempt = 0
    /\ df = EmptyFrame
    /\ csv = NoFile
    /\ pings = 0
    /\ pingOutcome = NoOutcome
    /\ klinesRequested = FALSE
    /\ callRequests = 0 /\ callSaw = {} /\ lastEvent = "none" /\ lastSleep = 0
    /\ reqStart = 0 /\ reqEnd = 0 /\ reqLimit = 0
    /\ received = <<>>
    /\ pace = 0
    /\ exitReason = "none"
    /\ sortedPages = TRUE

\* lines 16-26 and the call at line 181: one ping request, its outcome o
TestConnection(o) ==
    /\ pc = "main"
    /\ pings' = pings + 1
    /\ pingOutcome' = o
    /\ connected' = PingResult(o)
    /\ pc' = "checked"
    /\ UNCHANGED <<max_retries, df, csv, klinesRequested, klines, attempt, pace, exitReason>>
    /\ UNCHANGED <<fetchVars, callObs, pageObs>>

\* lines 181-183: exit(1)
MainAbort ==
    /\ pc = "checked"
    /\ AbortRun(connected)
    /\ pc' = "exited"
    /\ UNCHANGED <<max_retries, mainVars, klinesRequested, klines, attempt, pace, exitReason>>
    /\ UNCHANGED <<fetchVars, callObs, pageObs>>

\* line 188 and lines 99-107: fetch_all_klines is entered, the dates are
\* resolved to the timestamps s and e
FetchStart(s, e) ==
    /\ pc = "checked"
    /\ ~AbortRun(connected)
    /\ start_ts' = s
    /\ end_ts' = e
    /\ all_klines' = <<>>
    /\ current_ts' = s
    /\ failed_count' = 0
    /\ pc' = "loop"
    /\ UNCHANGED <<max_retries, mainVars, klinesRequested, klines, attempt, pace, exitReason>>
    /\ UNCHANGED <<callObs, pageObs>>

\* lines 109-111: the loop runs, get_klines is called with the cursor
LoopRequest ==
    /\ pc = "loop"
    /\ LoopRuns(current_ts, end_ts)
    /\ reqStart' = current_ts
    /\ reqEnd' = end_ts
    /\ reqLimit' = RequestLimit(PageLimit)
    /\ attempt' = 0
    /\ callRequests' = 0 /\ callSaw' = {} /\ lastEvent' = "called" /\ lastSleep' = 0
    /\ pc' = "get"
    /\ UNCHANGED <<max_retries, mainVars, klinesRequested, klines, pace, exitReason>>
    /\ UNCHANGED <<start_ts, end_ts, current_ts, all_klines, failed_count, received, sortedPages>>

\* line 109 false, lines 138-139
LoopExit ==
    /\ pc = "loop"
    /\ ~LoopRuns(current_ts, end_ts)
    /\ exitReason' = "cursor"
    /\ pc' = "fetched"
    /\ UNCHANGED <<max_retries, mainVars, klinesRequested, klines, attempt, pace>>
    /\ UNCHANGED <<fetchVars, callObs, pageObs>>

\* ------------------------------------------------------------ get_klines
\* What the caller of requests.get saw of an outcome: status 200 with a JSON
\* body, status 200 with a body that is no JSON, a rate-limit status, or
\* neither (another status, or no response at all).
OutcomeClass(kind) ==
    IF kind = "200" THEN "ok200"
    ELSE IF kind = "200-unparseable" THEN "bad200"
    ELSE IF kind \in {"ratelimit", "ratelimit-badheader"} THEN "ratelimit"
    ELSE "failure"

\* The observations of a get_klines call are dropped once line 111 has its value.
CallForgotten ==
    /\ callRequests' = 0 /\ callSaw' = {} /\ lastEvent' = "none" /\ lastSleep' = 0

\* line 52: one HTTP request of the current call, of outcome kind
Request(kind) ==
    /\ pc = "get"
    /\ ForLoopRuns(attempt, max_retries)
    /\ callRequests' = callRequests + 1
    /\ callSaw' = callSaw \cup {OutcomeClass(kind)}
    /\ klinesRequested' = TRUE

\* get_klines returns v to line 111
Return(v) ==
    /\ klines' = v
    /\ pc' = "got"
    /\ UNCHANGED attempt

\* lines 65-71, 74-78, 80-84: back off and retry, or give up
BackoffOrGiveUp ==
    IF RetryAllowed(attempt, max_retries)
    THEN /\ lastSleep' = WaitTime(attempt)
         /\ lastEvent' = "sleep"
         /\ attempt' = attempt + 1
         /\ UNCHANGED <<pc, klines>>
    ELSE /\ lastEvent' = "request"
         /\ UNCHANGED lastSleep
         /\ Return(None)

\* lines 55-59: status 429 or 418 with a usable Retry-After header
HttpRateLimited(status, header) ==
    /\ IsRateLimit(status)
    /\ Request("ratelimit")
    /\ lastSleep' = RetryAfter(header)
    /\ lastEvent' = "sleep"
    /\ attempt' = AfterRateLimit(attempt)
    /\ UNCHANGED <<pc, klines, max_retries, mainVars, pace, exitReason>>
    /\ UNCHANGED <<fetchVars, pageObs>>

\* lines 61-62: status 200, the body parses to the page.  The first two
\* conjuncts after the request are the endpoint's (see the head of the module).
HttpOk(page) ==
    /\ Request("200")
    /\ FromStart(page, reqStart)
    /\ StrictlyIncreasing(page) \/ sortedPages
    /\ sortedPages' = (sortedPages /\ StrictlyIncreasing(page))
    /\ received' = received \o page
    /\ lastEvent' = "request"
    /\ Return(Rows(page))
    /\ UNCHANGED <<max_retries, mainVars, pace, exitReason, lastSleep, reqStart, reqEnd, reqLimit>>
    /\ UNCHANGED fetchVars

\* lines 65-71: any other status
HttpOtherStatus(status) ==
    /\ ~IsRateLimit(status) /\ status # 200
    /\ Request("status")
    /\ BackoffOrGiveUp
    /\ UNCHANGED <<max_retries, mainVars, pace, exitReason>>
    /\ UNCHANGED <<fetchVars, pageObs>>

\* lines 73-78: requests.get timed out
HttpTimeout ==
    /\ Request("timeout")
    /\ BackoffOrGiveUp
    /\ UNCHANGED <<max_retries, mainVars, pace, exitReason>>
    /\ UNCHANGED <<fetchVars, pageObs>>

\* lines 79-84: any other exception raised inside the try block: by
\* requests.get ("transport"), by response.json() on a status 200 whose body
\* is no JSON ("200-unparseable"), by int() on a Retry-After header that is
\* no integer ("ratelimit-badheader")
HttpException(cause) ==
    /\ Request(cause)
    /\ BackoffOrGiveUp
    /\ UNCHANGED <<max_retries, mainVars, pace, exitReason>>
    /\ UNCHANGED <<fetchVars, pageObs>>

ExceptionCauses == {"transport", "200-unparseable", "ratelimit-badheader"}

\* line 86: the for loop ran out
ForExhausted ==
    /\ pc = "get"
    /\ ~ForLoopRuns(attempt, max_retries)
    /\ Return(None)
    /\ UNCHANGED <<max_retries, mainVars, klinesRequested, pace, exitReason>>
    /\ UNCHANGED <<fetchVars, callObs, pageObs>>

\* ------------------------------------------- fetch_all_klines, loop body
\* lines 113-120: the page fetch is taken as failed
HandleFailed ==
    /\ pc = "got"
    /\ Falsy(klines)
    /\ failed_count' = CountFailure(failed_count)
    /\ IF GiveUp(CountFailure(failed_count))
       THEN /\ exitReason' = "failures"
            /\ pace' = 0
            /\ pc' = "fetched"
       ELSE /\ pace' = FailureDelay(1)
            /\ pc' = "loop"
            /\ UNCHANGED exitReason
    /\ UNCHANGED <<max_retries, mainVars, klinesRequested, klines, attempt>>
    /\ UNCHANGED <<start_ts, end_ts, current_ts, all_klines>>
    /\ CallForgotten
    /\ UNCHANGED pageObs

\* lines 122-136: the page fetch is taken as a success
HandleRows ==
    /\ pc = "got"
    /\ ~Falsy(klines)
    /\ failed_count' = 0
    /\ IF Len(klines.rows) = 0
       THEN /\ exitReason' = "empty"
            /\ pace' = 0
            /\ pc' = "fetched"
            /\ UNCHANGED <<all_klines, current_ts>>
       ELSE /\ all_klines' = Extend(all_klines, klines.rows)
            /\ current_ts' = NextCursor(klines.rows)
            /\ IF ShortPage(klines.rows)
               THEN /\ exitReason' = "short"
                    /\ pace' = 0
                    /\ pc' = "fetched"
               ELSE /\ pace' = PageDelay(1)
                    /\ pc' = "loop"
                    /\ UNCHANGED exitReason
    /\ UNCHANGED <<max_retries, mainVars, klinesRequested, klines, attempt>>
    /\ UNCHANGED <<start_ts, end_ts>>
    /\ CallForgotten
    /\ UNCHANGED pageObs

\* ------------------------------------------------------ __main__, the end
\* line 193
Convert ==
    /\ pc = "fetched"
    /\ df' = klines_to_dataframe(all_klines)
    /\ pc' = "converted"
    /\ UNCHANGED <<max_retries, connected, csv, pings, pingOutcome, klinesRequested, klines, attempt, pace, exitReason>>
    /\ UNCHANGED <<fetchVars, callObs, pageObs>>

\* lines 194-196
Export ==
    /\ pc = "converted"
    /\ ~FrameEmpty(df)
    /\ csv' = save_to_csv(df, csv)
    /\ pc' = "done"
    /\ UNCHANGED <<max_retries, connected, df, pings, pingOutcome, klinesRequested, klines, attempt, pace, exitReason>>
    /\ UNCHANGED <<fetchVars, callObs, pageObs>>

\* line 194 false: the run ends without an export
SkipExport ==
    /\ pc = "converted"
    /\ FrameEmpty(df)
    /\ pc' = "done"
    /\ UNCHANGED <<max_retries, mainVars, klinesRequested, klines, attempt, pace, exitReason>>
    /\ UNCHANGED <<fetchVars, callObs, pageObs>>

\* lines 162-166: save_to_csv called on the table as it is, by a caller that
\* does not look at the table first
SaveDirect ==
    /\ pc = "converted"
    /\ csv' = save_to_csv(df, csv)
    /\ pc' = "saved"
    /\ UNCHANGED <<max_retries, connected, df, pings, pingOutcome, klinesRequested, klines, attempt, pace, exitReason>>
    /\ UNCHANGED <<fetchVars, callObs, pageObs>>

Next ==
    \/ \E o \in PingOutcomes : TestConnection(o)
    \/ MainAbort
    \/ \E s \in Timestamps, e \in Timestamps : FetchStart(s, e)
    \/ LoopRequest
    \/ LoopExit
    \/ \E st \in {429, 418}, h \in RetryAfterHeaders : HttpRateLimited(st, h)
    \/ \E page \in Pages : HttpOk(page)
    \/ \E st \in {500, 404} : HttpOtherStatus(st)
    \/ HttpTimeout
    \/ \E c \in ExceptionCauses : HttpException(c)
    \/ ForExhausted
    \/ HandleFailed
    \/ HandleRows
    \/ Convert
    \/ Export
    \/ SkipExport

Spec == Init /\ [][Next]_vars

\* The steps of fetch_all_klines and of the get_klines calls it makes.
FetchStep ==
    \/ LoopRequest
    \/ LoopExit
    \/ \E st \in {429, 418}, h \in RetryAfterHeaders : HttpRateLimited(st, h)
    \/ \E page \in Pages : HttpOk(page)
    \/ \E st \in {500, 404} : HttpOtherStatus(st)
    \/ HttpTimeout
    \/ \E c \in ExceptionCauses : HttpException(c)
    \/ ForExhausted
    \/ HandleFailed
    \/ HandleRows

\* The run is one sequential flow: every request returns (timeout=30, line 52)
\* and every sleep ends, so a fetch under way always takes its next step.
FairSpec == Spec /\ WF_vars(FetchStep)

\* klines_to_dataframe and save_to_csv on their own: the series is any series
\* of up to MaxLen raw rows, as fetch_all_klines may have returned it.
InitConv ==
    /\ pc = "fetched"
    /\ max_retries \in {DefaultMaxRetries}
    /\ connected = TRUE
    /\ start_ts = 0 /\ end_ts = 0 /\ current_ts = 0
    /\ all_klines \in SeqsUpTo(RawRows, MaxLen)
    /\ failed_count = 0
    /\ klines = None
    /\ attempt = 0
    /\ df = EmptyFrame
    /\ csv = NoFile
    /\ pings = 1
    /\ pingOutcome = [kind |-> "response", status |-> 200]
    /\ klinesRequested = FALSE
    /\ callRequests = 0 /\ callSaw = {} /\ lastEvent = "none" /\ lastSleep = 0
    /\ reqStart = 0 /\ reqEnd = 0 /\ reqLimit = 0
    /\ received = <<>>
    /\ pace = 0
    /\ exitReason = "none"
    /\ sortedPages = TRUE

NextConv == Convert \/ Export \/ SkipExport \/ SaveDirect

SpecConv == InitConv /\ [][NextConv]_vars

\* One get_klines call on its own: the first page request of a fetch from s to
\* e, with any max_retries up to MaxCallRetries.
InitCall ==
    /\ pc = "get"
    /\ max_retries \in 0..MaxCallRetries
    /\ connected = TRUE
    /\ \E s \in Timestamps, e \in Timestamps :
         /\ LoopRuns(s, e)
         /\ start_ts = s /\ end_ts = e /\ current_ts = s
         /\ reqStart = s /\ reqEnd = e
    /\ reqLimit = RequestLimit(PageLimit)
    /\ all_klines = <<>>
    /\ failed_count = 0
    /\ klines = None
    /\ attempt = 0
    /\ df = EmptyFrame
    /\ csv = NoFile
    /\ pings = 1
    /\ pingOutcome = [kind |-> "response", status |-> 200]
    /\ klinesRequested = FALSE
    /\ callRequests = 0 /\ callSaw = {} /\ lastEvent = "called" /\ lastSleep = 0
    /\ received = <<>>
    /\ pace = 0
    /\ exitReason = "none"
    /\ sortedPages = TRUE

NextCall ==
    \/ \E st \in {429, 418}, h \in RetryAfterHeaders : HttpRateLimited(st, h)
    \/ \E page \in Pages : HttpOk(page)
    \/ \E st \in {500, 404} : HttpOtherStatus(st)
    \/ HttpTimeout
    \/ \E c \in ExceptionCauses : HttpException(c)
    \/ ForExhausted

SpecCall == InitCall /\ [][NextCall]_vars

\* ================================================================ claims
Last(seq) == seq[Len(seq)]
Returned == pc \in {"fetched", "converted", "done"}

\* C1: provided every page came sorted by open time (strictly ascending) with
\* every open time at or after the requested startTime, the series that
\* fetch_all_klines accumulates and returns has strictly increasing open
\* times: no duplicate, nothing out of order, also across page boundaries
\* and across retried pages.
C1_SeriesStrictlyIncreasing ==
    sortedPages => StrictlyIncreasing(all_klines)

\* A returned series of more than one page, sorted pages only.
C1_Witness ==
    pc = "fetched" /\ sortedPages /\ Len(all_klines) > PageLimit

\* C2: a get_klines call issues at most max_retries HTTP requests; every
\* request, rate-limited ones included, moves the call to the next attempt or
\* ends it; a call that saw nothing but 429/418 returns None after exactly
\* max_retries requests.
C2_RequestsBounded ==
    /\ [](callRequests <= max_retries /\ attempt <= max_retries)
    /\ [](pc = "got" /\ callSaw = {"ratelimit"}
            => klines = None /\ callRequests = max_retries)
    /\ [][pc = "get" /\ callRequests' # callRequests
            => callRequests' = callRequests + 1
               /\ (pc' = "got" \/ attempt' = attempt + 1)]_vars

\* A call that was rate-limited on every one of its max_retries > 1 attempts
\* and has returned None.
C2_Witness ==
    /\ pc = "got" /\ callSaw = {"ratelimit"} /\ lastEvent = "sleep"
    /\ max_retries > 1 /\ callRequests = max_retries /\ klines = None

\* C3: the cursor changes only when a page with rows is handled, and then to
\* the open time of the page's last row plus 1; a page request that follows a
\* full page has that value as its startTime.
C3_CursorAdvance ==
    [][/\ (pc # "checked" /\ current_ts' # current_ts
             => /\ pc = "got" /\ ~Falsy(klines)
                /\ current_ts' = OpenTime(Last(klines.rows)) + 1)
       /\ (pc = "loop" /\ pc' = "get" /\ Len(klines.rows) = PageLimit
             => reqStart' = OpenTime(Last(klines.rows)) + 1)]_vars

\* A page request issued right after a full page whose rows are not
\* consecutive timestamps.
C3_Witness ==
    /\ pc = "get" /\ Len(klines.rows) = PageLimit
    /\ reqStart = OpenTime(Last(klines.rows)) + 1
    /\ OpenTime(klines.rows[1]) + 1 # reqStart

\* C4: a successful page of at least 1 and fewer than PageLimit rows is
\* appended and ends the loop, whatever the cursor; once the loop is left no
\* page request follows.
C4_ShortPageEndsLoop ==
    [][/\ (pc = "got" /\ Len(klines.rows) >= 1 /\ Len(klines.rows) < PageLimit
             => /\ all_klines' = all_klines \o klines.rows
                /\ pc' = "fetched")
       /\ (Returned => Returned' /\ klinesRequested' = klinesRequested
                         /\ all_klines' = all_klines)]_vars

\* A one-page fetch ended by a short page with the cursor still below the end.
C4_Witness ==
    /\ pc = "fetched" /\ exitReason = "short"
    /\ all_klines = klines.rows /\ current_ts < end_ts

\* C5: a page fetch that succeeds (HTTP 200) with zero rows ends the loop at
\* once: it is not counted as a page failure, not retried, and the series
\* accumulated so far is returned.
C5_EmptyPageEndsLoop ==
    [][pc = "got" /\ ~klines.none /\ Len(klines.rows) = 0
         => /\ pc' = "fetched"
            /\ failed_count' <= failed_count
            /\ all_klines' = all_klines]_vars

\* C6: when the 5th page fetch in a row fails (get_klines returned None), the
\* loop stops there, returns exactly the rows accumulated before, as a normal
\* return, and no page request follows.
C6_FiveFailuresStop ==
    /\ [][pc = "got" /\ klines.none /\ failed_count = FailureLimit - 1
            => /\ pc' = "fetched"
               /\ exitReason' = "failures"
               /\ all_klines' = all_klines]_vars
    /\ [](exitReason = "failures" => Returned /\ failed_count = FailureLimit)
    /\ [][Returned => Returned' /\ klinesRequested' = klinesRequested
                         /\ all_klines' = all_klines]_vars

\* The fetch has returned a partial, non-empty series after 5 failures that
\* were all exhausted get_klines calls.
C6_Witness ==
    /\ pc = "fetched" /\ exitReason = "failures"
    /\ klines.none /\ Len(all_klines) > 0 /\ current_ts < end_ts

\* C7: every fetch_all_klines call returns (the endpoint's rows being at or
\* after the requested startTime), and the loop is left only with the cursor
\* at or past the end timestamp, after 5 consecutive page failures, or after
\* an empty or short page.
C7_FetchTerminates ==
    /\ (pc = "loop" ~> pc = "fetched")
    /\ [](pc = "fetched" =>
            \/ exitReason = "cursor" /\ current_ts >= end_ts
            \/ exitReason = "failures" /\ failed_count >= FailureLimit
            \/ exitReason = "empty" /\ ~klines.none /\ Len(klines.rows) = 0
            \/ exitReason = "short" /\ Len(klines.rows) >= 1
                                    /\ Len(klines.rows) < PageLimit)

\* A fetch of several pages, one of them unsorted, that returned because the
\* cursor reached the end.
C7_Witness ==
    /\ pc = "fetched" /\ exitReason = "cursor"
    /\ ~sortedPages /\ Len(all_klines) > PageLimit

\* C8: no klines request is issued, nothing is fetched, converted or exported
\* unless test_connection returned true earlier in the run: a false result
\* ends the run.
C8_NoFetchWithoutConnection ==
    (\/ klinesRequested
     \/ pc \in {"loop", "get", "got", "fetched", "converted", "done"}
     \/ df # EmptyFrame
     \/ csv.written)
        => connected /\ pings = 1

\* The run has exited after a failed connectivity check.
C8_Witness ==
    pc = "exited" /\ ~connected /\ pings = 1 /\ ~klinesRequested

\* C9 as stated: get_klines returns the rows on the first HTTP 200 among its
\* attempts, at once, and returns None exactly when no attempt got HTTP 200.
C9_NoneIffNo200 ==
    /\ (pc = "get" => callSaw \cap {"ok200", "bad200"} = {})
    /\ (pc = "got" => (klines.none <=> callSaw \cap {"ok200", "bad200"} = {}))

\* C9 as amended: get_klines returns the rows on the first HTTP 200 whose body
\* parses, at once (that request is the last thing the call does); it returns
\* None exactly when no attempt got HTTP 200 with a parseable body; a call
\* always ends by returning, rows or None.
C9_NoneIffNoParsed200 ==
    /\ (pc = "get" => "ok200" \notin callSaw)
    /\ (pc = "got" => (klines.none <=> "ok200" \notin callSaw))
    /\ (pc = "got" /\ ~klines.none => lastEvent = "request" /\ callRequests >= 1)

\* A call returned rows on its second attempt, after an HTTP 200 whose body did
\* not parse.
C9_Witness ==
    /\ pc = "got" /\ ~klines.none /\ Len(klines.rows) > 0
    /\ callSaw = {"bad200", "ok200"} /\ callRequests = 2

\* C10: klines_to_dataframe on a non-empty series of 12-field rows gives one
\* row per input row, in input order, under exactly the 11 named columns in
\* their order; the 12th field, ignore, is gone.
Columns11 == <<"open_time", "open", "high", "low", "close", "volume",
               "close_time", "quote_volume", "trades", "taker_buy_base",
               "taker_buy_quote">>

C10_ElevenColumns ==
    pc = "converted" /\ Len(all_klines) > 0
        => /\ df.columns = Columns11
           /\ Len(df.rows) = Len(all_klines)
           /\ \A i \in 1..Len(all_klines) :
                /\ Len(df.rows[i]) = 11
                /\ df.rows[i][1] = ToDatetime(all_klines[i][1])
                /\ df.rows[i][7] = ToDatetime(all_klines[i][7])
                /\ df.rows[i][9] = all_klines[i][9]
                /\ \A c \in {2, 3, 4, 5, 6, 8, 10, 11} :
                     df.rows[i][c] = ToFloat(all_klines[i][c])

\* A converted series of several, different rows.
C10_Witness ==
    /\ pc = "converted" /\ Len(all_klines) >= 2
    /\ all_klines[1] # all_klines[2] /\ Len(df.rows) = Len(all_klines)

\* C11: an empty result is no error anywhere: klines_to_dataframe on an empty
\* series gives the empty table, save_to_csv on an empty table writes nothing
\* and leaves the file as it was, and the entry point ends without an export.
C11_EmptyIsNoError ==
    Len(all_klines) = 0
        => /\ csv = NoFile
           /\ (pc \in {"converted", "saved", "done"}
                 => df = EmptyFrame /\ Len(df.rows) = 0)

\* save_to_csv has been called on the empty table and has returned.
C11_Witness ==
    pc = "saved" /\ Len(all_klines) = 0 /\ FrameEmpty(df) /\ csv = NoFile

\* C12: in get_klines, an attempt of 0-based index i that ends in another
\* status, a timeout or a transport exception is followed, when
\* i < max_retries - 1, by a sleep of exactly (i + 1) * 2 seconds and the next
\* request; when i = max_retries - 1 the call returns None without sleeping.
\* i counts every earlier attempt of the call, rate-limited ones included.
C12_LinearBackoff ==
    /\ [](pc = "get" => attempt = callRequests)
    /\ [][(\/ HttpTimeout
           \/ HttpException("transport")
           \/ \E st \in {500, 404} : HttpOtherStatus(st))
            => IF attempt < max_retries - 1
               THEN /\ lastEvent' = "sleep"
                    /\ lastSleep' = (attempt + 1) * 2
                    /\ pc' = "get"
                    /\ attempt' = attempt + 1
                    /\ attempt' < max_retries
               ELSE /\ pc' = "got"
                    /\ klines' = None
                    /\ lastEvent' = "request"
                    /\ lastSleep' = lastSleep]_vars

\* The attempt of index 1 failed after a rate-limited attempt of index 0: the
\* call has slept 4 seconds and is about to issue its third request.
C12_Witness ==
    /\ pc = "get" /\ attempt = 2 /\ max_retries = 3
    /\ callSaw = {"ratelimit", "failure"}
    /\ lastEvent = "sleep" /\ lastSleep = 4

\* C13: a failed page fetch changes the failure counter and nothing else of
\* the fetch: the cursor, the series and the bounds of the range stay, and
\* the page request that follows has the startTime and endTime of the failed
\* one.
C13_FailureKeepsCursor ==
    [][/\ (pc = "got" /\ klines.none
             => /\ failed_count' = failed_count + 1
                /\ current_ts' = current_ts
                /\ all_klines' = all_klines
                /\ start_ts' = start_ts /\ end_ts' = end_ts)
       /\ (pc = "loop" /\ pc' = "get" /\ klines.none /\ failed_count > 0
             => reqStart' = reqStart /\ reqEnd' = reqEnd)]_vars

\* A page request repeated after a failed fetch in the middle of a range.
C13_Witness ==
    /\ pc = "get" /\ klines.none /\ failed_count > 0
    /\ Len(all_klines) > 0 /\ reqStart = current_ts /\ reqStart > start_ts

\* C14: the failure counter counts consecutive failures only: it is 0 right
\* after every successful page with rows, it is between 0 and 4 whenever a
\* page request is issued, it goes up by one only when a page fetch failed
\* (get_klines returned None), and the loop is abandoned for failure only with
\* the counter at 5, that is after 5 failed page fetches in a row.
C14_CountsFailuresOnly ==
    /\ [][pc = "got" /\ ~klines.none /\ Len(klines.rows) > 0
            => failed_count' = 0]_vars
    /\ [](pc = "get" => failed_count \in 0..(FailureLimit - 1))
    /\ [][failed_count' > failed_count
            => pc = "got" /\ klines.none /\ failed_count' = failed_count + 1]_vars
    /\ [](exitReason = "failures" => failed_count = FailureLimit)

\* C15: every page request carries the cursor as startTime, the resolved end
\* timestamp as endTime and the limit 1000 (here PageLimit), and is issued
\* with the cursor below the end timestamp; with the resolved start not below
\* the resolved end no request is issued and the empty series is returned.
C15_RequestParameters ==
    /\ (pc \in {"get", "got"}
          => /\ reqStart = current_ts
             /\ reqEnd = end_ts
             /\ reqLimit = PageLimit
             /\ current_ts < end_ts)
    /\ (Returned /\ start_ts >= end_ts
          => ~klinesRequested /\ all_klines = <<>>)

\* A page request for a later page of the range.
C15_Witness ==
    /\ pc = "get" /\ current_ts > start_ts /\ reqStart = current_ts
    /\ reqEnd = end_ts /\ klinesRequested

\* C16: between two consecutive page requests of a fetch there is exactly one
\* pacing sleep: of delay after a full page, of delay * 2 after a page fetch
\* taken as failed; before the first request there is none.
C16_OnePacingSleep ==
    pc = "get"
        => IF ~Falsy(klines)
           THEN pace = 1 /\ Len(klines.rows) = PageLimit
           ELSE IF failed_count > 0
                THEN pace = 2
                ELSE pace = 0 /\ all_klines = <<>>

\* A page request after a failed fetch that itself came after a full page.
C16_Witness ==
    /\ pc = "get" /\ pace = 2 /\ failed_count = 1
    /\ Len(all_klines) >= PageLimit

\* C17: the accumulated series is the non-empty successful page responses
\* received so far, end to end in the order of the requests: once the page in
\* hand is appended nothing received is missing, moved or doubled, and failed
\* fetches add nothing.
C17_SeriesIsPagesInOrder ==
    /\ (pc # "got" => all_klines = received)
    /\ (pc = "got" => received = all_klines \o klines.rows)

\* A returned series of more than one page, one of them unsorted.
C17_Witness ==
    /\ pc = "fetched" /\ Len(all_klines) > PageLimit
    /\ ~sortedPages /\ all_klines = received

\* C18: every sleep inside get_klines is followed by another HTTP request of
\* the same call: the call never returns right after a sleep.
C18_SleepThenRequest ==
    pc = "got" => lastEvent # "sleep"

\* C19: test_connection issues exactly one ping request and returns true
\* exactly when that request ended with status 200; any other status, a
\* timeout or an exception gives false.
C19_OnePingTrueIff200 ==
    /\ (pc = "main" => pings = 0)
    /\ (pc # "main"
          => /\ pings = 1
             /\ (connected <=> pingOutcome = [kind |-> "response", status |-> 200]))

\* test_connection returned false on a response whose status is not 200.
C19_Witness ==
    /\ pc = "exited" /\ pings = 1
    /\ pingOutcome = [kind |-> "response", status |-> 500] /\ ~connected

====
